---- MODULE Spec2Model ----
(***************************************************************************)
(* Model of mnd_crawler.py: the listing crawl (run_full), the daily        *)
(* update (run_daily), the override merge (apply_manual_gap), the date     *)
(* normalisation (normalize_date_to_iso) and the GET with retry            *)
(* (safe_get).                                                             *)
(*                                                                         *)
(* Spec runs the two modes against a small sample site; SpecFull is one    *)
(* full crawl of a site with a report of its own on every page; SpecGet    *)
(* is one call of safe_get, attempt by attempt; SpecDate is one call of    *)
(* normalize_date_to_iso.                                                  *)
(*                                                                         *)
(* Strings that the program compares, sorts or parses (dates) are          *)
(* sequences of Unicode code points, so that Python's string order and     *)
(* the parsing steps are computed and not assumed.  Strings the program    *)
(* only copies (titles, bodies, URLs) are TLA+ strings.                    *)
(***************************************************************************)
EXTENDS Integers, Sequences, FiniteSets, TLC

\* ------------------------------------------------------------------------
\* Strings as sequences of code points
\* ------------------------------------------------------------------------
\* Code points of the characters the date code looks at.
Ch(c) ==
    CASE c = " " -> 32
      [] c = "-" -> 45
      [] c = "." -> 46
      [] c = "/" -> 47
      [] c = "x" -> 120
      [] c = "Y" -> 24180   \* U+5E74, year sign
      [] c = "M" -> 26376   \* U+6708, month sign
      [] c = "D" -> 26085   \* U+65E5, day sign

IsDigit(c) == c >= 48 /\ c <= 57

\* Python's str comparison: lexicographic by code point.
RECURSIVE StrLess(_, _)
StrLess(a, b) ==
    IF b = <<>> THEN FALSE
    ELSE IF a = <<>> THEN TRUE
    ELSE IF Head(a) # Head(b) THEN Head(a) < Head(b)
    ELSE StrLess(Tail(a), Tail(b))

StrLeq(a, b) == a = b \/ StrLess(a, b)

\* str.strip(): leading and trailing blanks removed.
RECURSIVE LStrip(_)
LStrip(s) == IF s # <<>> /\ Head(s) = Ch(" ") THEN LStrip(Tail(s)) ELSE s

RECURSIVE RStrip(_)
RStrip(s) ==
    IF s # <<>> /\ s[Len(s)] = Ch(" ") THEN RStrip(SubSeq(s, 1, Len(s) - 1)) ELSE s

Strip(s) == RStrip(LStrip(s))

\* str.split(sep) for a one-character separator: the list of the pieces.
RECURSIVE SplitAcc(_, _, _)
SplitAcc(s, sep, cur) ==
    IF s = <<>> THEN <<cur>>
    ELSE IF Head(s) = sep THEN <<cur>> \o SplitAcc(Tail(s), sep, <<>>)
    ELSE SplitAcc(Tail(s), sep, Append(cur, Head(s)))

Split(s, sep) == SplitAcc(s, sep, <<>>)

\* int(p) of a string of decimal digits.
RECURSIVE DigitsValue(_)
DigitsValue(p) ==
    IF p = <<>> THEN 0
    ELSE DigitsValue(SubSeq(p, 1, Len(p) - 1)) * 10 + (p[Len(p)] - 48)

AllDigits(p) == p # <<>> /\ \A i \in 1..Len(p) : IsDigit(p[i])

\* The decimal digits of n, at least w of them (zero-padded).
RECURSIVE Digits(_, _)
Digits(n, w) ==
    IF n < 10 /\ w <= 1 THEN <<48 + n>>
    ELSE Append(Digits(n \div 10, w - 1), 48 + (n % 10))

\* ------------------------------------------------------------------------
\* datetime: calendar validity and strftime("%Y-%m-%d")
\* ------------------------------------------------------------------------
IsLeap(y) == (y % 4 = 0 /\ y % 100 # 0) \/ y % 400 = 0

DaysInMonth(y, m) ==
    IF m \in {4, 6, 9, 11} THEN 30
    ELSE IF m = 2 THEN (IF IsLeap(y) THEN 29 ELSE 28)
    ELSE 31

\* datetime(year, month, day) raises ValueError outside these ranges.
ValidDate(y, m, d) ==
    /\ y >= 1 /\ y <= 9999
    /\ m >= 1 /\ m <= 12
    /\ d >= 1 /\ d <= DaysInMonth(y, m)

\* dt.strftime("%Y-%m-%d"): month and day are zero-padded to two digits; the
\* C library's %Y prints the year without padding (year 114 gives "114").
Strftime(y, m, d) ==
    Digits(y, 1) \o <<Ch("-")>> \o Digits(m, 2) \o <<Ch("-")>> \o Digits(d, 2)

\* The value standing for a raised ValueError.
ValueError == <<0>>

\* datetime.strptime(s, "%Y-%m-%d"): the year is exactly four digits, the
\* month one or two digits in 1..12, the day one or two digits in 1..31 (a
\* one-digit day may follow a blank); then the date must exist.
StrptimeField(p, hi, blankOk) ==
    LET q == IF blankOk /\ Len(p) = 2 /\ p[1] = Ch(" ") THEN Tail(p) ELSE p
    IN  /\ AllDigits(q)
        /\ Len(p) <= 2
        /\ DigitsValue(q) >= 1
        /\ DigitsValue(q) <= hi

Strptime(s) ==
    LET parts == Split(s, Ch("-"))
    IN  IF /\ Len(parts) = 3
           /\ Len(parts[1]) = 4 /\ AllDigits(parts[1])
           /\ StrptimeField(parts[2], 12, FALSE)
           /\ StrptimeField(parts[3], 31, TRUE)
           /\ ValidDate(DigitsValue(parts[1]), DigitsValue(parts[2]),
                        DigitsValue(LStrip(parts[3])))
        THEN Strftime(DigitsValue(parts[1]), DigitsValue(parts[2]),
                      DigitsValue(LStrip(parts[3])))
        ELSE ValueError

\* re.sub(r"[YMD.\-]", "/", s): year/month/day signs, dots and hyphens
\* become slashes.
SubSeparators(s) ==
    [i \in 1..Len(s) |->
        IF s[i] \in {Ch("Y"), Ch("M"), Ch("D"), Ch("."), Ch("-")}
        THEN Ch("/") ELSE s[i]]

\* re.sub(r"/+", "/", s): runs of slashes collapse to one.
RECURSIVE CollapseSlashes(_)
CollapseSlashes(s) ==
    IF Len(s) < 2 THEN s
    ELSE IF s[1] = Ch("/") /\ s[2] = Ch("/") THEN CollapseSlashes(Tail(s))
    ELSE <<Head(s)>> \o CollapseSlashes(Tail(s))

\* str.strip("/")
RECURSIVE StripSlashes(_)
StripSlashes(s) ==
    IF s # <<>> /\ Head(s) = Ch("/") THEN StripSlashes(Tail(s))
    ELSE IF s # <<>> /\ s[Len(s)] = Ch("/")
         THEN StripSlashes(SubSeq(s, 1, Len(s) - 1))
    ELSE s

\* The era rule of normalize_date_to_iso: a year below 1911 is a
\* Republic-era year.
EraYear(year) == IF year < 1911 THEN year + 1911 ELSE year

normalize_date_to_iso(date_str) ==
    LET s == Strip(date_str)
        s_clean == StripSlashes(CollapseSlashes(SubSeparators(s)))
        parts == Split(s_clean, Ch("/"))
        y == Strip(parts[1])
        m == Strip(parts[2])
        d == Strip(parts[3])
        year == EraYear(DigitsValue(y))
    IN  IF s = <<>> THEN ValueError
        ELSE IF Strptime(s) # ValueError THEN Strptime(s)
        ELSE IF Len(parts) # 3 THEN ValueError
        ELSE IF ~(AllDigits(y) /\ AllDigits(m) /\ AllDigits(d)) THEN ValueError
        ELSE IF ~ValidDate(year, DigitsValue(m), DigitsValue(d)) THEN ValueError
        ELSE Strftime(year, DigitsValue(m), DigitsValue(d))


\* df[col].astype(str).apply(normalize_date_to_iso): every date of the
\* column converted; the first failure raises.
DatesConvert(rows) ==
    \A i \in 1..Len(rows) : normalize_date_to_iso(rows[i].date) # ValueError

normalize_date_column(rows) ==
    [i \in 1..Len(rows) |->
        [rows[i] EXCEPT !.date = normalize_date_to_iso(rows[i].date)]]

\* ------------------------------------------------------------------------
\* DataFrames: sequences of rows [date, title, content, url]
\* ------------------------------------------------------------------------
Reverse(rows) == [i \in 1..Len(rows) |-> rows[Len(rows) + 1 - i]]

\* The stable ascending sort by the date string (numpy sorts the short
\* columns of this model by insertion).
RECURSIVE InsertByDate(_, _)
InsertByDate(sorted, r) ==
    IF sorted = <<>> THEN <<r>>
    ELSE IF StrLess(r.date, sorted[Len(sorted)].date)
         THEN Append(InsertByDate(SubSeq(sorted, 1, Len(sorted) - 1), r),
                     sorted[Len(sorted)])
    ELSE Append(sorted, r)

RECURSIVE SortAscending(_)
SortAscending(rows) ==
    IF rows = <<>> THEN <<>>
    ELSE InsertByDate(SortAscending(SubSeq(rows, 1, Len(rows) - 1)),
                      rows[Len(rows)])

\* A column whose dates strictly rise, or strictly fall, has one sorted
\* order whatever the sorting algorithm: itself, or its reverse.
StrictlyRising(rows) ==
    \A i \in 1..(Len(rows) - 1) : StrLess(rows[i].date, rows[i + 1].date)

StrictlyFalling(rows) ==
    \A i \in 1..(Len(rows) - 1) : StrLess(rows[i + 1].date, rows[i].date)

SortColumn(rows) ==
    IF StrictlyRising(rows) THEN rows
    ELSE IF StrictlyFalling(rows) THEN Reverse(rows)
    ELSE SortAscending(rows)

\* df.sort_values(col, ascending=...): pandas reverses the column, sorts it
\* ascending and reverses the outcome when ascending is False.
sort_values(rows, ascending) ==
    IF ascending THEN SortColumn(rows)
    ELSE Reverse(SortColumn(Reverse(rows)))

\* The rows at the positions of keep, in their order (a boolean mask).
SelectRows(rows, keep) ==
    LET F[i \in 0..Len(rows)] ==
            IF i = 0 THEN <<>>
            ELSE IF i \in keep THEN Append(F[i - 1], rows[i])
            ELSE F[i - 1]
    IN  F[Len(rows)]

DateSet(rows) == {rows[i].date : i \in 1..Len(rows)}

\* ------------------------------------------------------------------------
\* manual_gap.csv
\* ------------------------------------------------------------------------
\* A file is [exists, cols, rows]; a row of a file has the four fields, and
\* the fields of columns the file does not have are ignored.
NoFile == [exists |-> FALSE, cols |-> {}, rows |-> <<>>]

DefaultGapTitle == "PLA activities"

\* The result of an operation that may raise: err is "none" or the
\* exception, df the returned DataFrame.  isNone tells the None of
\* load_manual_gap.
Raised(e) == [err |-> e, isNone |-> FALSE, df |-> <<>>]
Returned(rows) == [err |-> "none", isNone |-> FALSE, df |-> rows]
ReturnedNone == [err |-> "none", isNone |-> TRUE, df |-> <<>>]

load_manual_gap(file) ==
    IF ~file.exists THEN ReturnedNone
    ELSE IF ~({"date", "content"} \subseteq file.cols) THEN Raised("KeyError")
    ELSE IF ~DatesConvert(file.rows) THEN Raised("ValueError")
    ELSE Returned(
        [i \in 1..Len(file.rows) |->
            [date |-> normalize_date_to_iso(file.rows[i].date),
             title |-> IF "title" \in file.cols THEN file.rows[i].title
                       ELSE DefaultGapTitle,
             content |-> file.rows[i].content,
             url |-> IF "url" \in file.cols THEN file.rows[i].url ELSE ""]])

\* DropGapDates with the filter of line 334 forgotten.
DropGapDates_NoFilter(base_df, gap_df) == base_df

\* Lines 331-334: the rows of base_df whose date is no override date.
DropGapDates(base_df, gap_df) ==
    LET gap_dates == DateSet(gap_df)
    IN  SelectRows(base_df, {i \in 1..Len(base_df) : base_df[i].date \notin gap_dates})

\* MergeGap with the sort of line 341 forgotten.
MergeGap_Unsorted(base_df, gap_df) == DropGapDates(base_df, gap_df) \o gap_df

\* Lines 338-341: the overrides appended, the whole sorted by date.
MergeGap(base_df, gap_df) ==
    sort_values(DropGapDates(base_df, gap_df) \o gap_df, TRUE)

apply_manual_gap(base_df, file) ==
    LET gap == load_manual_gap(file)
    IN  IF gap.err # "none" THEN gap
        ELSE IF gap.isNone \/ gap.df = <<>>
             THEN Returned(sort_values(base_df, TRUE))
        ELSE Returned(MergeGap(base_df, gap.df))


\* ------------------------------------------------------------------------
\* The site: listing pages and article pages
\* ------------------------------------------------------------------------
\* Date strings of the model, as code points.
Roc1201 == <<49, 49, 52, 46, 49, 50, 46, 48, 49>>        \* "114.12.01"
Roc1202 == <<49, 49, 52, 46, 49, 50, 46, 48, 50>>        \* "114.12.02"
Roc1301 == <<49, 49, 52, 46, 49, 51, 46, 48, 49>>        \* "114.13.01"
Iso1201 == <<50, 48, 50, 53, 45, 49, 50, 45, 48, 49>>    \* "2025-12-01"
Iso1202 == <<50, 48, 50, 53, 45, 49, 50, 45, 48, 50>>    \* "2025-12-02"
Slash1201 == <<49, 49, 52, 47, 49, 50, 47, 48, 49>>      \* "114/12/01"
Slash1301 == <<49, 49, 52, 47, 49, 51, 47, 48, 49>>      \* "114/13/01"
West1202 == <<50, 48, 50, 53, 47, 49, 50, 47, 50>>       \* "2025/12/2"

\* Line 401: the defensive ceiling of the page index.
PageCeiling == 1000

\* Line 372: the streak of pages without a new URL that ends the crawl.
NoNewLimit == 2

\* The report of listing page p of a site that has a report of its own on
\* every page, one day older from page to page: its date token, its anchor
\* text and its URL.
Pad2(n) == IF n < 10 THEN "0" \o ToString(n) ELSE ToString(n)

PagedYear(p) == 114 - ((p - 1) \div 336)
PagedMonth(p) == 12 - (((p - 1) % 336) \div 28)
PagedDay(p) == 28 - ((p - 1) % 28)

PagedRocDate(p) ==
    Digits(PagedYear(p), 3) \o <<Ch(".")>> \o Digits(PagedMonth(p), 2)
        \o <<Ch(".")>> \o Digits(PagedDay(p), 2)

PagedTitle(p) ==
    ToString(PagedYear(p)) \o "." \o Pad2(PagedMonth(p)) \o "."
        \o Pad2(PagedDay(p)) \o " PLA activities"

PagedUrl(p) == "https://www.mnd.gov.tw/p" \o ToString(p)

\* Anchor texts of a listing page.
Titles ==
    {"", "other news", "PLA activities",
     "114.12.01 PLA activities", "114.12.02 PLA activities",
     "114.13.01 PLA activities"}

\* any(kw in title for kw in KEYWORDS)
HasKeyword(title) == title \notin {"", "other news"}

\* re.search(r"\d{3}\.\d{2}\.\d{2}", title): the token, or <<>> for no match.
DateToken(title) ==
    CASE title = "114.12.01 PLA activities" -> Roc1201
      [] title = "114.12.02 PLA activities" -> Roc1202
      [] title = "114.13.01 PLA activities" -> Roc1301
      [] title \in Titles -> <<>>
      [] \E p \in 1..(PageCeiling + 1) : title = PagedTitle(p) ->
            PagedRocDate(CHOOSE p \in 1..(PageCeiling + 1) : title = PagedTitle(p))
      [] OTHER -> <<>>

\* Detail URLs (absolute, so that urljoin leaves them as they are).
Urls == {"https://www.mnd.gov.tw/a1", "https://www.mnd.gov.tw/a2"}

Anchor(t, h) == [title |-> t, href |-> h]

\* The anchors the site serves: two reports, a report whose date token is
\* no calendar date, and links that are no report.
Report1 == Anchor("114.12.01 PLA activities", "https://www.mnd.gov.tw/a1")
Report2 == Anchor("114.12.02 PLA activities", "https://www.mnd.gov.tw/a2")
BadDateReport == Anchor("114.13.01 PLA activities", "https://www.mnd.gov.tw/a2")
UndatedLink == Anchor("PLA activities", "https://www.mnd.gov.tw/a1")
OtherLink == Anchor("other news", "https://www.mnd.gov.tw/a2")
EmptyLink == Anchor("", "https://www.mnd.gov.tw/a1")

\* The listing pages the site may answer with: no report at all, one
\* report, both in either order, the same report twice, and a report with
\* an impossible date.
ListingPages ==
    {<<>>,
     <<OtherLink, EmptyLink, UndatedLink>>,
     <<Report1>>,
     <<OtherLink, Report2>>,
     <<Report1, Report2>>,
     <<Report2, Report1>>,
     <<Report1, Report1>>,
     <<BadDateReport>>,
     <<Report1, BadDateReport>>}

\* What safe_get returns: None, or the page.  A listing page is the list of
\* its anchors; an article page has a div.maincontent with a text, or none.
None == [ok |-> FALSE, anchors |-> <<>>, main |-> FALSE, text |-> ""]
ListingHtml(as) == [ok |-> TRUE, anchors |-> as, main |-> FALSE, text |-> ""]
ArticleHtml(hasMain, t) == [ok |-> TRUE, anchors |-> <<>>, main |-> hasMain, text |-> t]

ListingResponses == {None} \cup {ListingHtml(as) : as \in ListingPages}

\* The endless site: page p lists the report of page p and nothing else.
PagedResponses(p) == {ListingHtml(<<Anchor(PagedTitle(p), PagedUrl(p))>>)}

\* What safe_get may return for listing page p and for an article.
SiteListing(s, p) == IF s = "endless" THEN PagedResponses(p) ELSE ListingResponses

Bodies == {"B"}

ArticleResponses ==
    {None, ArticleHtml(FALSE, "")} \cup {ArticleHtml(TRUE, t) : t \in Bodies}

SiteArticle(s) ==
    IF s = "endless" THEN {ArticleHtml(TRUE, "B")} ELSE ArticleResponses

\* Lines 207-223: the anchors with a title, a keyword and a date token.
MatchingEntries(anchors) ==
    LET F[i \in 0..Len(anchors)] ==
            IF i = 0 THEN <<>>
            ELSE IF /\ anchors[i].title # ""
                    /\ HasKeyword(anchors[i].title)
                    /\ DateToken(anchors[i].title) # <<>>
                 THEN Append(F[i - 1],
                             [roc_date |-> DateToken(anchors[i].title),
                              url |-> anchors[i].href,
                              title |-> anchors[i].title])
            ELSE F[i - 1]
    IN  F[Len(anchors)]

\* crawl_list_page, given what safe_get returned for the page's URL.
crawl_list_page(html) ==
    IF ~html.ok THEN <<>> ELSE MatchingEntries(html.anchors)

extract_maincontent_text(html) == IF ~html.main THEN "" ELSE html.text

\* crawl_article with the text of None for a failed fetch.
crawl_article_NoneText(html) ==
    IF ~html.ok THEN "None" ELSE extract_maincontent_text(html)

\* crawl_article, given what safe_get returned for the article's URL.
crawl_article(html) ==
    IF ~html.ok THEN "" ELSE extract_maincontent_text(html)

\* e["roc_date"].replace(".", "/")
ReplaceDots(s) == [i \in 1..Len(s) |-> IF s[i] = Ch(".") THEN Ch("/") ELSE s[i]]

\* Lines 383-384 and 440-441: the ISO date of a listing entry.
EntryIsoDate(e) == normalize_date_to_iso(ReplaceDots(e.roc_date))

\* Lines 386-393 and 446-451: the row of an entry.
EntryRow(e, iso_date, content) ==
    [date |-> iso_date, title |-> e.title, content |-> content, url |-> e.url]


\* ------------------------------------------------------------------------
\* State
\* ------------------------------------------------------------------------
VARIABLES
    OUTPUT_CSV,          \* mnd_pla.csv: [exists, cols, rows of [date, content]]
    MANUAL_GAP,          \* manual_gap.csv: [exists, cols, rows]
    pc,                  \* "idle", or the place of the running run_full
    status,              \* how the last run ended
    runs,                \* runs started so far
    page,                \* run_full: the page index
    consecutive_no_new,  \* run_full: pages in a row without a new URL
    seen_urls,           \* run_full: the URLs met so far
    all_rows,            \* run_full: the harvested rows
    todo,                \* run_full: the rest of new_entries in the for loop
    pages,               \* history: the outcome of each listing page requested
    art,                 \* history: the article outcome behind each harvested row
    fetched,             \* history: the article URLs fetched, in order
    df_old,              \* run_daily: the rows read from the old file
    df_new,              \* run_daily: the row of the newest entry
    df,                  \* the DataFrame apply_manual_gap returned
    prev,                \* history: file, status and new row before the last run_daily
    site,                \* which site answers: "sample" or "endless"
    retries,             \* safe_get: the parameter
    attempt,             \* safe_get: the loop variable i
    sent,                \* safe_get: history, the requests sent
    log,                 \* safe_get: history, how each attempt ended
    returned,            \* safe_get: what it returned, once it has
    date_str,            \* normalize_date_to_iso: the argument
    normalized,          \* normalize_date_to_iso: it has returned or raised
    iso                  \* normalize_date_to_iso: what it returned

fetchVars == <<retries, attempt, sent, log, returned>>

dateVars == <<date_str, normalized, iso>>

crawlVars ==
    <<OUTPUT_CSV, MANUAL_GAP, pc, status, runs, page, consecutive_no_new,
      seen_urls, all_rows, todo, pages, art, fetched, df_old, df_new, df,
      prev, site>>

vars == <<crawlVars, fetchVars, dateVars>>

\* Runs of the program in one behaviour.
MaxRuns == 2

CsvFile(cols, rows) == [exists |-> TRUE, cols |-> cols, rows |-> rows]
CsvRow(d, c) == [date |-> d, content |-> c]
GapRow(d, c) == [date |-> d, title |-> "patched", content |-> c, url |-> "manual"]

\* The files of the deployments the model starts from.
CanonicalCsv == CsvFile({"date", "announcement"}, <<CsvRow(Iso1201, "A")>>)
DottedCsv == CsvFile({"date", "content"}, <<CsvRow(Roc1202, "A"), CsvRow(Roc1201, "B")>>)
SlashedCsv == CsvFile({"date", "content"}, <<CsvRow(Slash1201, "A")>>)
HalfSlashedCsv ==
    CsvFile({"date", "content"}, <<CsvRow(Slash1301, "A"), CsvRow(Slash1201, "B")>>)

EmptyGap == CsvFile({"date", "content"}, <<>>)
OneGap == CsvFile({"date", "content"}, <<GapRow(West1202, "D")>>)
TwiceGap ==
    CsvFile({"date", "title", "content", "url"},
            <<GapRow(Iso1201, "D"), GapRow(Slash1201, "E")>>)
BadDateGap == CsvFile({"date", "content"}, <<GapRow(Slash1301, "D")>>)
NoContentGap == CsvFile({"date"}, <<GapRow(Iso1201, "")>>)

Deployments ==
    {<<NoFile, NoFile>>, <<NoFile, TwiceGap>>, <<NoFile, BadDateGap>>,
     <<CanonicalCsv, OneGap>>, <<CanonicalCsv, TwiceGap>>,
     <<CanonicalCsv, NoContentGap>>, <<CanonicalCsv, NoFile>>,
     <<DottedCsv, NoFile>>, <<DottedCsv, OneGap>>,
     <<SlashedCsv, EmptyGap>>, <<HalfSlashedCsv, OneGap>>}

\* The deployment of the endless site.
EndlessDeployments == {<<NoFile, NoFile>>, <<CanonicalCsv, EmptyGap>>}

\* What run_daily found before it ran; nothing before the first one.
NoPrev == [csv |-> NoFile, status |-> "none", new |-> <<>>]

\* safe_get has not been called, or has not returned yet.
Running == [done |-> FALSE, isNone |-> FALSE, text |-> ""]

\* No program runs, no function is called.
CrawlIdle(deployments, s) ==
    /\ \E dep \in deployments : OUTPUT_CSV = dep[1] /\ MANUAL_GAP = dep[2]
    /\ site = s
    /\ pc = "idle"
    /\ status = "none"
    /\ runs = 0
    /\ page = 1
    /\ consecutive_no_new = 0
    /\ seen_urls = {}
    /\ all_rows = <<>>
    /\ todo = <<>>
    /\ pages = <<>>
    /\ art = <<>>
    /\ fetched = <<>>
    /\ df_old = <<>>
    /\ df_new = <<>>
    /\ df = <<>>
    /\ prev = NoPrev

FetchIdle ==
    /\ retries = 0
    /\ attempt = 0
    /\ sent = 0
    /\ log = <<>>
    /\ returned = Running

DateIdle ==
    /\ date_str = <<>>
    /\ normalized = FALSE
    /\ iso = <<>>

Init == CrawlIdle(Deployments, "sample") /\ FetchIdle /\ DateIdle

\* ------------------------------------------------------------------------
\* run_full
\* ------------------------------------------------------------------------
\* Lines 349-355.  run_full never reads mnd_pla.csv: after other runs it
\* crawls and writes what it does as the first run, so the model starts it
\* as the first run only; the daily runs follow it.
StartFull ==
    /\ pc = "idle"
    /\ runs = 0
    /\ runs' = runs + 1
    /\ pc' = "list"
    /\ page' = 1
    /\ consecutive_no_new' = 0
    /\ seen_urls' = {}
    /\ all_rows' = <<>>
    /\ todo' = <<>>
    /\ pages' = <<>>
    /\ art' = <<>>
    /\ fetched' = <<>>
    /\ df_old' = <<>>
    /\ df_new' = <<>>
    /\ df' = <<>>
    /\ UNCHANGED <<OUTPUT_CSV, MANUAL_GAP, status>>
    /\ UNCHANGED <<prev, site, fetchVars, dateVars>>

\* Line 364: the entries whose URL was not seen on an earlier page.
NewEntries(entries, seen) ==
    SelectRows(entries, {i \in 1..Len(entries) : entries[i].url \notin seen})

\* StopsOnEmpty with the break of line 361 forgotten.
StopsOnEmpty_Never(entries) == FALSE

\* Line 359: an empty list of entries ends the crawl.
StopsOnEmpty(entries) == entries = <<>>

\* StreakStops with the first page without a new URL ending the crawl.
StreakStops_AtOnce(n) == n >= 1

\* Line 372: the streak that ends the crawl.
StreakStops(n) == n >= NoNewLimit

\* StreakAfterNew with the reset of line 376 forgotten.
StreakAfterNew_Kept(n) == n

\* Line 376: the streak after a page with a new URL.
StreakAfterNew(n) == 0

PageOutcome(html, entries, new_entries) ==
    IF ~html.ok THEN "fail"
    ELSE IF entries = <<>> THEN "empty"
    ELSE IF new_entries = <<>> THEN "nonew"
    ELSE "new"

\* Lines 358-376: one listing page is requested and classified.
FullListPage ==
    /\ pc = "list"
    /\ \E html \in SiteListing(site, page) :
        LET entries == crawl_list_page(html)
            new_entries == NewEntries(entries, seen_urls)
        IN  /\ pages' = Append(pages, PageOutcome(html, entries, new_entries))
            /\ IF StopsOnEmpty(entries)
               THEN /\ pc' = "write"
                    /\ UNCHANGED <<consecutive_no_new, todo>>
               ELSE IF new_entries = <<>>
               THEN /\ consecutive_no_new' = consecutive_no_new + 1
                    /\ pc' = IF StreakStops(consecutive_no_new + 1)
                             THEN "write" ELSE "page_end"
                    /\ todo' = <<>>
               ELSE /\ consecutive_no_new' = StreakAfterNew(consecutive_no_new)
                    /\ todo' = new_entries
                    /\ pc' = "entries"
    /\ UNCHANGED <<OUTPUT_CSV, MANUAL_GAP, status, runs, page, seen_urls,
                   all_rows, art, fetched, df_old, df_new, df>>
    /\ UNCHANGED <<prev, site, fetchVars, dateVars>>

ArticleOutcome(html) ==
    IF ~html.ok THEN "fail" ELSE IF ~html.main THEN "miss" ELSE "ok"

\* Lines 378-394: one entry of the page: its article is fetched, its date
\* converted (a ValueError ends the program) and its row appended.
FullArticle ==
    /\ pc = "entries"
    /\ todo # <<>>
    /\ LET e == Head(todo)
           iso_date == EntryIsoDate(e)
       IN  /\ seen_urls' = seen_urls \cup {e.url}
           /\ fetched' = Append(fetched, e.url)
           /\ \E html \in SiteArticle(site) :
                IF iso_date = ValueError
                THEN /\ pc' = "done"
                     /\ status' = "crash_date"
                     /\ UNCHANGED <<all_rows, art, todo>>
                ELSE /\ all_rows' = Append(all_rows,
                                           EntryRow(e, iso_date, crawl_article(html)))
                     /\ art' = Append(art, ArticleOutcome(html))
                     /\ todo' = Tail(todo)
                     /\ pc' = IF Tail(todo) = <<>> THEN "page_end" ELSE "entries"
                     /\ UNCHANGED status
    /\ UNCHANGED <<OUTPUT_CSV, MANUAL_GAP, runs, page, consecutive_no_new,
                   pages, df_old, df_new, df>>
    /\ UNCHANGED <<prev, site, fetchVars, dateVars>>

\* PastCeiling with the check of line 401 forgotten.
PastCeiling_Never(p) == FALSE

\* Line 401: the page index is past the ceiling.
PastCeiling(p) == p > PageCeiling

\* NextPage with the increment of line 397 forgotten.
NextPage_Same(p) == p

\* Line 397: page += 1.
NextPage(p) == p + 1

\* Lines 396-403: the next page index, up to the ceiling.
FullPageEnd ==
    /\ pc = "page_end"
    /\ page' = NextPage(page)
    /\ pc' = IF PastCeiling(NextPage(page)) THEN "write" ELSE "list"
    /\ UNCHANGED <<OUTPUT_CSV, MANUAL_GAP, status, runs, consecutive_no_new,
                   seen_urls, all_rows, todo, pages, art, fetched, df_old,
                   df_new, df>>
    /\ UNCHANGED <<prev, site, fetchVars, dateVars>>

\* Lines 419-422 and 483-486: the two columns kept, newest date first.
OutputRows(rows) ==
    LET output_df == [i \in 1..Len(rows) |-> CsvRow(rows[i].date, rows[i].content)]
    IN  sort_values(output_df, FALSE)

\* Lines 405-425: the harvest is merged with the overrides and written.
FullWrite ==
    /\ pc = "write"
    /\ pc' = "done"
    /\ IF all_rows = <<>>
       THEN /\ OUTPUT_CSV' = CsvFile({"date", "announcement"}, <<>>)
            /\ status' = "full_empty"
            /\ UNCHANGED df
       ELSE LET merged == apply_manual_gap(all_rows, MANUAL_GAP)
            IN  IF merged.err # "none"
                THEN /\ status' = "crash_gap"
                     /\ UNCHANGED <<OUTPUT_CSV, df>>
                ELSE /\ df' = merged.df
                     /\ OUTPUT_CSV' = CsvFile({"date", "announcement"},
                                              OutputRows(merged.df))
                     /\ status' = "full_ok"
    /\ UNCHANGED <<MANUAL_GAP, runs, page, consecutive_no_new, seen_urls,
                   all_rows, todo, pages, art, fetched, df_old, df_new>>
    /\ UNCHANGED <<prev, site, fetchVars, dateVars>>


\* ------------------------------------------------------------------------
\* run_daily
\* ------------------------------------------------------------------------
\* str.contains(r"/")
ContainsSlash(s) == \E i \in 1..Len(s) : s[i] = Ch("/")

\* Lines 456-472: the old file read, its body column mapped to "content",
\* title and url added, and its dates converted when some date has a slash
\* and every date converts.
ReadOldCsv(file) ==
    LET raw == [i \in 1..Len(file.rows) |->
                    [date |-> file.rows[i].date, title |-> "",
                     content |-> file.rows[i].content, url |-> ""]]
    IN  IF (\E i \in 1..Len(raw) : ContainsSlash(raw[i].date)) /\ DatesConvert(raw)
        THEN normalize_date_column(raw)
        ELSE raw

\* Line 474: the old rows, then the new row.
ConcatOldNew(old, new) == old \o new

\* SkippedFile with the overrides merged into the old file before the return.
SkippedFile_Patched(file, gap) ==
    LET old == IF file.exists THEN ReadOldCsv(file) ELSE <<>>
        merged == apply_manual_gap(old, gap)
    IN  IF merged.err # "none" THEN file
        ELSE CsvFile({"date", "announcement"}, OutputRows(merged.df))

\* Lines 434-436: the return of a daily run that found no entry leaves
\* mnd_pla.csv as it is.
SkippedFile(file, gap) == file

\* run_daily is one step: the first listing page, the newest entry's
\* article, the old file, the overrides and the write.
RunDaily ==
    /\ pc = "idle"
    /\ runs < MaxRuns
    /\ runs' = runs + 1
    /\ \E html \in SiteListing(site, 1), ahtml \in SiteArticle(site) :
        LET entries == crawl_list_page(html)
            newest == entries[1]
            iso_date == EntryIsoDate(newest)
            new == <<EntryRow(newest, iso_date, crawl_article(ahtml))>>
            old == IF OUTPUT_CSV.exists THEN ReadOldCsv(OUTPUT_CSV) ELSE <<>>
            merged == apply_manual_gap(ConcatOldNew(old, new), MANUAL_GAP)
        IN  /\ pages' = <<PageOutcome(html, entries, entries)>>
            /\ IF entries = <<>>
               THEN /\ status' = "daily_skip"
                    /\ fetched' = <<>> /\ art' = <<>>
                    /\ df_old' = <<>> /\ df_new' = <<>> /\ df' = <<>>
                    /\ OUTPUT_CSV' = SkippedFile(OUTPUT_CSV, MANUAL_GAP)
               ELSE IF iso_date = ValueError
               THEN /\ status' = "crash_date"
                    /\ fetched' = <<>> /\ art' = <<>>
                    /\ df_old' = <<>> /\ df_new' = <<>> /\ df' = <<>>
                    /\ UNCHANGED OUTPUT_CSV
               ELSE /\ fetched' = <<newest.url>>
                    /\ art' = <<ArticleOutcome(ahtml)>>
                    /\ df_new' = new
                    /\ df_old' = old
                    /\ IF merged.err # "none"
                       THEN /\ status' = "crash_gap"
                            /\ df' = <<>>
                            /\ UNCHANGED OUTPUT_CSV
                       ELSE /\ status' = "daily_ok"
                            /\ df' = merged.df
                            /\ OUTPUT_CSV' = CsvFile({"date", "announcement"},
                                                     OutputRows(merged.df))
    /\ page' = 1
    /\ consecutive_no_new' = 0
    /\ seen_urls' = {}
    /\ all_rows' = <<>>
    /\ todo' = <<>>
    /\ UNCHANGED <<MANUAL_GAP, pc>>
    /\ prev' = [csv |-> OUTPUT_CSV, status |-> status, new |-> df_new]
    /\ UNCHANGED <<site, fetchVars, dateVars>>

\* The process of run_full ends: its local variables are gone.
FullExit ==
    /\ pc = "done"
    /\ pc' = "idle"
    /\ page' = 1
    /\ consecutive_no_new' = 0
    /\ seen_urls' = {}
    /\ all_rows' = <<>>
    /\ todo' = <<>>
    /\ pages' = <<>>
    /\ art' = <<>>
    /\ fetched' = <<>>
    /\ UNCHANGED <<OUTPUT_CSV, MANUAL_GAP, status, runs, df_old, df_new, df>>
    /\ UNCHANGED <<prev, site, fetchVars, dateVars>>

Next ==
    \/ StartFull
    \/ FullListPage
    \/ FullArticle
    \/ FullPageEnd
    \/ FullWrite
    \/ FullExit
    \/ RunDaily

Spec == Init /\ [][Next]_vars

\* One full crawl of the endless site: "python mnd_crawler.py full", once.
InitFull == CrawlIdle(EndlessDeployments, "endless") /\ FetchIdle /\ DateIdle

NextFull ==
    \/ StartFull
    \/ FullListPage
    \/ FullArticle
    \/ FullPageEnd
    \/ FullWrite
    \/ FullExit

SpecFull == InitFull /\ [][NextFull]_vars


\* ------------------------------------------------------------------------
\* safe_get, attempt by attempt
\* ------------------------------------------------------------------------
\* The largest retries parameter of the model.
MaxRetries == 3

\* What one requests.get may meet: an exception of requests (no connection,
\* timeout), or a response with a status, the encoding of its headers (""
\* for None), the encoding chardet guesses, and its bytes.
Statuses == {200, 404, 500}
HeaderEncodings == {"", "utf-8", "big5", "x-unknown"}
ApparentEncodings == {"", "utf-8", "big5"}
Raws == {"ascii", "utf8", "big5", "cp950", "junk"}

Raises == [raises |-> TRUE, status |-> 0, encoding |-> "", apparent |-> "", raw |-> ""]

GetResponses ==
    {Raises} \cup
    {[raises |-> FALSE, status |-> st, encoding |-> e, apparent |-> a, raw |-> b] :
        st \in Statuses, e \in HeaderEncodings, a \in ApparentEncodings, b \in Raws}

\* Lines 142-152: the encodings to try, in order.
EncCandidates(r) ==
    LET first == IF r.encoding # "" THEN <<r.encoding>> ELSE <<>>
        second == IF r.apparent # "" /\ r.apparent \notin {first[i] : i \in 1..Len(first)}
                  THEN Append(first, r.apparent) ELSE first
        Add(cands, e) ==
            IF e \in {cands[i] : i \in 1..Len(cands)} THEN cands ELSE Append(cands, e)
    IN  Add(Add(Add(second, "utf-8"), "big5"), "cp950")

\* raw.decode(enc): "ok", "UnicodeDecodeError" or, for a codec Python does
\* not know, "LookupError".
Decode(raw, enc) ==
    CASE enc = "utf-8" -> IF raw \in {"ascii", "utf8"} THEN "ok" ELSE "UnicodeDecodeError"
      [] enc = "big5" -> IF raw \in {"ascii", "big5"} THEN "ok" ELSE "UnicodeDecodeError"
      [] enc = "cp950" ->
            IF raw \in {"ascii", "big5", "cp950"} THEN "ok" ELSE "UnicodeDecodeError"
      [] OTHER -> "LookupError"

\* The text of raw decoded with enc.
Decoded(raw, enc) == raw \o " as " \o enc

\* Lines 136-170: one attempt: how it ends ("ok", or the exception the
\* except clause of line 172 catches) and the text it returns.
AttemptOutcome(r) ==
    IF r.raises THEN [kind |-> "RequestException", text |-> ""]
    ELSE IF r.status >= 400 THEN [kind |-> "HTTPError", text |-> ""]
    ELSE LET cands == EncCandidates(r)
             \* the first candidate that does not raise UnicodeDecodeError
             hits == {i \in 1..Len(cands) : Decode(r.raw, cands[i]) # "UnicodeDecodeError"}
             first == CHOOSE i \in hits : \A j \in hits : i <= j
         IN  IF hits = {}
             THEN [kind |-> "ok", text |-> Decoded(r.raw, "utf-8, errors replaced")]
             ELSE IF Decode(r.raw, cands[first]) = "LookupError"
             THEN [kind |-> "LookupError", text |-> ""]
             ELSE [kind |-> "ok", text |-> Decoded(r.raw, cands[first])]

\* LoopGoesOn with one attempt more than retries.
LoopGoesOn_OneMore(i, n) == i <= n + 1

\* Line 135: for i in range(1, retries + 1).
LoopGoesOn(i, n) == i <= n

\* Lines 135-173: one attempt of the loop: the request, then the return of
\* the text or the except clause and the next attempt.
GetAttempt ==
    /\ ~returned.done
    /\ LoopGoesOn(attempt, retries)
    /\ sent' = sent + 1
    /\ \E r \in GetResponses :
        LET out == AttemptOutcome(r)
        IN  /\ log' = Append(log, out.kind)
            /\ IF out.kind = "ok"
               THEN /\ returned' = [done |-> TRUE, isNone |-> FALSE, text |-> out.text]
                    /\ UNCHANGED attempt
               ELSE /\ attempt' = attempt + 1
                    /\ UNCHANGED returned
    /\ UNCHANGED <<retries, crawlVars, dateVars>>

\* Lines 175-176: the loop is over, safe_get returns None.
GetGiveUp ==
    /\ ~returned.done
    /\ ~LoopGoesOn(attempt, retries)
    /\ returned' = [done |-> TRUE, isNone |-> TRUE, text |-> ""]
    /\ UNCHANGED <<retries, attempt, sent, log, crawlVars, dateVars>>

\* One call of safe_get, with any retries parameter up to MaxRetries.
InitGet ==
    /\ CrawlIdle({<<NoFile, NoFile>>}, "sample")
    /\ DateIdle
    /\ retries \in 0..MaxRetries
    /\ attempt = 1
    /\ sent = 0
    /\ log = <<>>
    /\ returned = Running

NextGet == GetAttempt \/ GetGiveUp

\* safe_get runs on until it returns: requests.get gives up after its
\* timeout (line 136) and the sleep of line 173 lasts a second.
SpecGet == InitGet /\ [][NextGet]_vars /\ WF_vars(NextGet)


\* ------------------------------------------------------------------------
\* normalize_date_to_iso, one call
\* ------------------------------------------------------------------------
\* The first components of the arguments: a number and the digits it is
\* written with at least.
YearSpellings ==
    {<<0, 1>>, <<0, 4>>, <<1, 1>>, <<1, 4>>, <<114, 1>>, <<114, 4>>,
     <<1910, 1>>, <<1911, 1>>, <<1912, 1>>, <<2025, 1>>}

MonthSpellings == {<<2, 1>>, <<2, 2>>, <<13, 1>>}

DaySpellings == {<<3, 1>>, <<3, 2>>, <<30, 1>>}

\* The separators after the year, the month and the day.
SeparatorStyles ==
    {<<"/", "/", "">>, <<"-", "-", "">>, <<".", ".", "">>, <<"Y", "M", "D">>}

Sep(c) == IF c = "" THEN <<>> ELSE <<Ch(c)>>

DateSpelling(y, m, d, st) ==
    Digits(y[1], y[2]) \o Sep(st[1]) \o Digits(m[1], m[2]) \o Sep(st[2])
        \o Digits(d[1], d[2]) \o Sep(st[3])

DateInputs ==
    {DateSpelling(y, m, d, st) :
        y \in YearSpellings, m \in MonthSpellings, d \in DaySpellings,
        st \in SeparatorStyles}

\* Lines 65-113: the call returns, or raises ValueError.
Normalize ==
    /\ ~normalized
    /\ normalized' = TRUE
    /\ iso' = normalize_date_to_iso(date_str)
    /\ UNCHANGED <<date_str, crawlVars, fetchVars>>

\* One call of normalize_date_to_iso with any of the arguments.
InitDate ==
    /\ CrawlIdle({<<NoFile, NoFile>>}, "sample")
    /\ FetchIdle
    /\ date_str \in DateInputs
    /\ normalized = FALSE
    /\ iso = <<>>

NextDate == Normalize

SpecDate == InitDate /\ [][NextDate]_vars


\* ------------------------------------------------------------------------
\* Properties
\* ------------------------------------------------------------------------
Last(q) == q[Len(q)]

\* The last run merged the overrides and wrote the file.
Written == status \in {"full_ok", "daily_ok"}

\* run_full is between its first line and the end of its process.
InFullRun == pc # "idle"

\* The overrides as load_manual_gap returns them.
Overrides == load_manual_gap(MANUAL_GAP).df

AsCsvRow(r) == CsvRow(r.date, r.content)

Count(rows, r) == Cardinality({i \in 1..Len(rows) : AsCsvRow(rows[i]) = r})

\* C1: no two records of a written dataset share a date.
C1_UniqueDates ==
    Written =>
        \A i, j \in 1..Len(OUTPUT_CSV.rows) :
            i # j => OUTPUT_CSV.rows[i].date # OUTPUT_CSV.rows[j].date

C4_FailureGoesOn ==
    (pc = "write" /\ pages # <<>>) => Last(pages) # "fail"

\* C5: when the old file and the daily harvest have a row of the same date
\* and no override has that date, the written dataset has one row of that
\* date, the harvested one.
C5_HarvestedWins ==
    (/\ status = "daily_ok"
     /\ \E i \in 1..Len(df_old) : df_old[i].date = df_new[1].date
     /\ df_new[1].date \notin DateSet(Overrides))
        => /\ Count(OUTPUT_CSV.rows, AsCsvRow(df_new[1])) = 1
           /\ \A i \in 1..Len(OUTPUT_CSV.rows) :
                OUTPUT_CSV.rows[i].date = df_new[1].date
                    => OUTPUT_CSV.rows[i] = AsCsvRow(df_new[1])

\* C6: no harvested row comes from an article page in which the extractor
\* found no content.
C6_MissDropped ==
    /\ InFullRun => \A i \in 1..Len(all_rows) : art[i] # "miss"
    /\ status = "daily_ok" => \A i \in 1..Len(df_new) : art[i] # "miss"

\* C7: no run is aborted by a listing entry whose date is no calendar date.
C7_BadDateNotFatal == status # "crash_date"

\* C8: in a full run no URL is fetched twice and no URL has two harvested
\* rows.
C8_OncePerUrl ==
    InFullRun =>
        \A u \in Urls :
            /\ Cardinality({i \in 1..Len(fetched) : fetched[i] = u}) <= 1
            /\ Cardinality({i \in 1..Len(all_rows) : all_rows[i].url = u}) <= 1

\* The calendar day a date string of the file stands for, as a number.
DateKey(s) ==
    LET parts == Split(normalize_date_to_iso(s), Ch("-"))
    IN  DigitsValue(parts[1]) * 10000 + DigitsValue(parts[2]) * 100
            + DigitsValue(parts[3])

Monotone(keys) ==
    \/ \A i \in 1..(Len(keys) - 1) : keys[i] <= keys[i + 1]
    \/ \A i \in 1..(Len(keys) - 1) : keys[i] >= keys[i + 1]

\* C9: the rows of a written dataset are in calendar order (whenever all
\* its dates stand for a calendar day).
C9_SortedByCalendar ==
    (Written /\ \A i \in 1..Len(OUTPUT_CSV.rows) :
                    normalize_date_to_iso(OUTPUT_CSV.rows[i].date) # ValueError)
        => Monotone([i \in 1..Len(OUTPUT_CSV.rows) |-> DateKey(OUTPUT_CSV.rows[i].date)])

TrailingRun(q, v) ==
    LET others == {i \in 1..Len(q) : q[i] # v}
    IN  Len(q) - (IF others = {} THEN 0
                  ELSE CHOOSE i \in others : \A j \in others : j <= i)

SameRecords(a, b) ==
    /\ Len(a) = Len(b)
    /\ \A i \in 1..Len(a) : Count(a, a[i]) = Count(b, a[i])

\* The last two runs were daily runs that wrote, and the site answered the
\* second as it answered the first: same newest entry, same article.
DailyTwice ==
    /\ status = "daily_ok"
    /\ prev.status = "daily_ok"
    /\ prev.new = df_new

\* C12: a daily run that follows a daily run against an unchanged site adds
\* no row: the dataset has the records it had after the first run.
C12_SecondDailyAddsNothing ==
    DailyTwice => SameRecords(OUTPUT_CSV.rows, prev.csv.rows)

\* The run ended after its write: a full run with or without a harvest, or
\* a daily run.
Completed == status \in {"full_ok", "full_empty", "daily_ok"}

\* C16: the dataset a completed run wrote has every override record.
C16_OverridesInEveryWrite ==
    Completed =>
        \A k \in 1..Len(Overrides) :
            \E i \in 1..Len(OUTPUT_CSV.rows) :
                OUTPUT_CSV.rows[i] = AsCsvRow(Overrides[k])

\* C18: an article whose fetch failed has a row with the empty text, the
\* only crash of the crawl loop is the date of the entry at hand, and the
\* written dataset has the row of the failed article (unless an override
\* has its date).
C18_FetchFailureNotFatal ==
    InFullRun =>
        /\ Len(art) = Len(all_rows)
        /\ \A i \in 1..Len(art) : art[i] = "fail" => all_rows[i].content = ""
        /\ (pc = "done" /\ status = "crash_date")
              => (todo # <<>> /\ EntryIsoDate(Head(todo)) = ValueError)
        /\ (pc = "done" /\ status = "full_ok")
              => \A i \in 1..Len(art) :
                    (art[i] = "fail" /\ all_rows[i].date \notin DateSet(Overrides))
                        => Count(OUTPUT_CSV.rows, AsCsvRow(all_rows[i])) >= 1

\* The fetch of the first article failed, the crawl went on to a second
\* page and a second article, and wrote the row of the first.
C18_Witness ==
    /\ pc = "done"
    /\ status = "full_ok"
    /\ Len(art) >= 2
    /\ art[1] = "fail"
    /\ art[2] = "ok"
    /\ Len(pages) >= 3
    /\ Count(OUTPUT_CSV.rows, CsvRow(all_rows[1].date, "")) >= 1

\* C19: after a page with matching entries the counter is the number of
\* pages without a new URL since the last page that had one, and the crawl
\* ends on the counter only after NoNewLimit such pages in a row.
C19_StreakIsConsecutive ==
    (InFullRun /\ pages # <<>> /\ Last(pages) \in {"new", "nonew"})
        => /\ consecutive_no_new = TrailingRun(pages, "nonew")
           /\ (pc = "write" /\ ~PastCeiling(page))
                 => TrailingRun(pages, "nonew") >= NoNewLimit

\* A page with a new URL lay between two pages without one, and the crawl
\* goes on to the next page.
C19_Witness ==
    /\ pc = "page_end"
    /\ Len(pages) >= 3
    /\ pages[Len(pages) - 2] = "nonew"
    /\ pages[Len(pages) - 1] = "new"
    /\ Last(pages) = "nonew"
    /\ consecutive_no_new = 1

\* C20: a daily run that found no entry on the first listing page leaves
\* mnd_pla.csv as it was and merges nothing.
C20_SkippedDailyWritesNothing ==
    status = "daily_skip" => (OUTPUT_CSV = prev.csv /\ df = <<>>)

\* A daily run found no entry while overrides that the file does not have
\* were waiting to be merged.
C20_Witness ==
    /\ status = "daily_skip"
    /\ pages = <<"empty">>
    /\ \E k \in 1..Len(Overrides) :
          Count(OUTPUT_CSV.rows, AsCsvRow(Overrides[k])) = 0

\* How far run_full is from its end: the pages left below the ceiling,
\* then the place in the loop body, then the entries left of the page.
Phase(at) ==
    CASE at = "list" -> 5
      [] at = "entries" -> 4
      [] at = "page_end" -> 3
      [] at = "write" -> 2
      [] at = "done" -> 1
      [] OTHER -> 0

Variant == <<PageCeiling + 1 - page, Phase(pc), Len(todo)>>

LexLess(a, b) ==
    \/ a[1] < b[1]
    \/ a[1] = b[1] /\ a[2] < b[2]
    \/ a[1] = b[1] /\ a[2] = b[2] /\ a[3] < b[3]

\* C17: a full crawl requests no listing page with an index above the
\* ceiling, whatever the site serves, and it terminates: it is never stuck
\* and each of its steps brings it closer to its end, by a measure that
\* cannot fall below zero.
C17_CrawlTerminates ==
    /\ [](/\ Len(pages) <= PageCeiling
          /\ page <= PageCeiling + 1
          /\ pc \in {"list", "entries", "page_end"} => page <= PageCeiling
          /\ pc = "entries" => todo # <<>>)
    /\ [][(pc # "idle" /\ pc' # "idle") => LexLess(Variant', Variant)]_vars

\* Every page up to the ceiling had a new URL, and the crawl stopped at the
\* ceiling with the harvest of all of them.
C17_Witness ==
    /\ pc = "write"
    /\ page = PageCeiling + 1
    /\ Len(pages) = PageCeiling
    /\ \A i \in 1..Len(pages) : pages[i] = "new"
    /\ Len(all_rows) = PageCeiling

Accepted == normalized /\ iso # ValueError

\* The number the leading digits of a date string spell.
RECURSIVE LeadingDigits(_)
LeadingDigits(s) ==
    IF s = <<>> \/ ~IsDigit(Head(s)) THEN <<>>
    ELSE <<Head(s)>> \o LeadingDigits(Tail(s))

FirstComponent(s) == DigitsValue(LeadingDigits(s))

\* C14: the year of the canonical date is the first component of the
\* argument plus 1911 when that is below 1911, and the first component
\* otherwise, whatever the spelling.
C14_EraFromFirstComponent ==
    Accepted =>
        FirstComponent(iso) =
            (IF FirstComponent(date_str) < 1911
             THEN FirstComponent(date_str) + 1911
             ELSE FirstComponent(date_str))

\* C15: the year of every canonical date is 1912 or later.
C15_YearAtLeast1912 == Accepted => FirstComponent(iso) >= 1912

====
